---- MODULE Spec2Model ----
(***************************************************************************)
(* Five independent SOLID examples (tasks/task_1.py .. task_5.py), each    *)
(* modelled as its own state machine over its own variables.  The common   *)
(* variables call, ret, raised and trace hold the last top-level call, the *)
(* value it returned, the exception it raised, and the ordered events      *)
(* (prints and nested method calls) it produced.                           *)
(***************************************************************************)
EXTENDS Integers, Sequences, FiniteSets, TLC

VARIABLES
    call,        \* the last top-level call: <<name, arg, ...>>
    ret,         \* the value the last call returned
    raised,      \* the exception the last call raised, or None
    trace,       \* the events of the last call, in order
    users,       \* task 1: UserManager._users
    history,     \* task 1: the add_user/remove_user calls made so far
    strategies,  \* task 2: DiscountCalculator._strategies
    shape,       \* task 3: the shape object under test
    workforce,   \* task 4: the list of workers
    pc,          \* task 4: position of the driver
    idx,         \* task 4: loop index of the driver (1-based)
    subject,     \* task 4: the worker the driver's capability checks test
    invocations, \* task 4: every method invocation made so far
    sender,      \* task 5: NotificationService._sender
    injected     \* task 5: the sender passed to the constructor

vars == <<call, ret, raised, trace, users, history, strategies, shape,
          workforce, pc, idx, subject, invocations, sender, injected>>

commonVars == <<call, ret, raised, trace>>
task1Vars == <<users, history>>
task2Vars == <<strategies>>
task3Vars == <<shape>>
task4Vars == <<workforce, pc, idx, subject, invocations>>
task5Vars == <<sender, injected>>

\* Python's None
None == "None"

\* The empty dict
EmptyDict == <<>>

\* State of an example that is not running
Idle1 == users = EmptyDict /\ history = <<>>
Idle2 == strategies = EmptyDict
Idle3 == shape = None
Idle4 == workforce = <<>> /\ pc = "idle" /\ idx = 0 /\ subject = 0 /\ invocations = <<>>
Idle5 == sender = None /\ injected = None
InitCommon == call = <<"init">> /\ ret = None /\ raised = None /\ trace = <<>>

(***************************************************************************)
(* Python dict and truthiness                                              *)
(***************************************************************************)
\* d.get(k): the value, or None when k is no key
DictGet(d, k) == IF k \in DOMAIN d THEN d[k] ELSE None

\* d[k] = v
DictSet(d, k, v) == [x \in (DOMAIN d) \cup {k} |-> IF x = k THEN v ELSE d[x]]

\* del d[k], for a key k of d
DictDel(d, k) == [x \in (DOMAIN d) \ {k} |-> d[x]]

\* the values `if v:` takes as false, among strings and None
Falsy == {None, ""}

Truthy(v) == v \notin Falsy

(***************************************************************************)
(* Task 1: UserManager and EmailNotifier                                   *)
(***************************************************************************)
MaxOps == 3

UserIds == {"u1", "u2"}

\* what a caller may pass as an email: strings (the empty one too) and None
EmailArgs == {"a@x.com", "b@x.com", "", None}

Messages == {"hi"}

InitUsers ==
    /\ InitCommon
    /\ users = EmptyDict
    /\ history = <<>>
    /\ Idle2 /\ Idle3 /\ Idle4 /\ Idle5

add_user(user_id, email) ==
    /\ Len(history) < MaxOps
    /\ call' = <<"add_user", user_id, email>>
    /\ trace' = << <<"print", "Adding user", user_id, email>> >>
    /\ users' = DictSet(users, user_id, email)
    /\ ret' = None
    /\ raised' = None
    /\ history' = Append(history, [op |-> "add_user", id |-> user_id, email |-> email])
    /\ UNCHANGED <<task2Vars, task3Vars, task4Vars, task5Vars>>

get_user_email(user_id) ==
    /\ call' = <<"get_user_email", user_id>>
    /\ trace' = <<>>
    /\ ret' = DictGet(users, user_id)
    /\ raised' = None
    /\ UNCHANGED <<task1Vars, task2Vars, task3Vars, task4Vars, task5Vars>>

\* remove_user without its membership test: del raises KeyError on a missing key
remove_user_unguarded(user_id) ==
    /\ Len(history) < MaxOps
    /\ call' = <<"remove_user", user_id>>
    /\ trace' = << <<"print", "Removing user", user_id>> >>
    /\ IF user_id \in DOMAIN users
          THEN users' = DictDel(users, user_id) /\ raised' = None
          ELSE users' = users /\ raised' = "KeyError"
    /\ ret' = None
    /\ history' = Append(history, [op |-> "remove_user", id |-> user_id, email |-> None])
    /\ UNCHANGED <<task2Vars, task3Vars, task4Vars, task5Vars>>

\* remove_user that prints but forgets the del
remove_user_keeps(user_id) ==
    /\ Len(history) < MaxOps
    /\ call' = <<"remove_user", user_id>>
    /\ trace' = IF user_id \in DOMAIN users
                   THEN << <<"print", "Removing user", user_id>> >>
                   ELSE <<>>
    /\ users' = users
    /\ ret' = None
    /\ raised' = None
    /\ history' = Append(history, [op |-> "remove_user", id |-> user_id, email |-> None])
    /\ UNCHANGED <<task2Vars, task3Vars, task4Vars, task5Vars>>

remove_user(user_id) ==
    /\ Len(history) < MaxOps
    /\ call' = <<"remove_user", user_id>>
    /\ IF user_id \in DOMAIN users
          THEN /\ trace' = << <<"print", "Removing user", user_id>> >>
               /\ users' = DictDel(users, user_id)
          ELSE /\ trace' = <<>>
               /\ users' = users
    /\ ret' = None
    /\ raised' = None
    /\ history' = Append(history, [op |-> "remove_user", id |-> user_id, email |-> None])
    /\ UNCHANGED <<task2Vars, task3Vars, task4Vars, task5Vars>>

NotFoundMessage == <<"print", "Could not send email: Email not found.">>

send_notification_email(email, message) ==
    /\ call' = <<"send_notification_email", email, message>>
    /\ trace' = IF Truthy(email)
                   THEN << <<"print", "Attempting to send email", email, message>>,
                           <<"print", "Simulated email sent.">> >>
                   ELSE << NotFoundMessage >>
    /\ ret' = None
    /\ raised' = None
    /\ UNCHANGED <<task1Vars, task2Vars, task3Vars, task4Vars, task5Vars>>

NextUsers ==
    \/ \E u \in UserIds, e \in EmailArgs : add_user(u, e)
    \/ \E u \in UserIds : get_user_email(u)
    \/ \E u \in UserIds : remove_user(u)
    \/ \E e \in EmailArgs, m \in Messages : send_notification_email(e, m)

SpecUsers == InitUsers /\ [][NextUsers]_vars

\* The email of the most recent add_user(id, .) of h that no remove_user(id)
\* follows, None when there is none: read off the call history alone.
RECURSIVE LastAdded(_, _)
LastAdded(h, id) ==
    IF h = <<>> THEN None
    ELSE LET e == h[Len(h)] IN
         IF e.id = id
            THEN (IF e.op = "add_user" THEN e.email ELSE None)
            ELSE LastAdded(SubSeq(h, 1, Len(h) - 1), id)

\* C1: after any sequence of add_user and remove_user calls, get_user_email(id)
\* is, for every id, the email of the most recent add_user(id, email) not
\* followed by remove_user(id), and None when there is no such add_user; the
\* value a get_user_email call returned is that email.
C1_LookupIsLastAdd ==
    /\ \A id \in UserIds : DictGet(users, id) = LastAdded(history, id)
    /\ call[1] = "get_user_email" => ret = LastAdded(history, call[2])
    /\ raised = None

\* C1 witness: u1 was added, removed and added again with another email, and
\* get_user_email("u1") returned the second email.
C1_Witness ==
    /\ Len(history) = 3
    /\ history[1] = [op |-> "add_user", id |-> "u1", email |-> "a@x.com"]
    /\ history[2].op = "remove_user" /\ history[2].id = "u1"
    /\ history[3] = [op |-> "add_user", id |-> "u1", email |-> "b@x.com"]
    /\ call = <<"get_user_email", "u1">>
    /\ ret = "b@x.com"

\* C7 as stated: remove_user(id), when get_user_email(id) yields no email
\* (None), leaves the mapping exactly as it was and raises nothing.
C7_Original_NoEmailRemoveIsNoOp ==
    [][(call'[1] = "remove_user" /\ DictGet(users, call'[2]) = None)
          => (users' = users /\ raised' = None)]_vars

\* C7 amended: remove_user(id) for an id that is no key of the mapping leaves
\* the mapping exactly as it was, raises nothing and prints nothing; the
\* not-found message is printed by send_notification_email when it is handed
\* an email that is None or empty, and that call raises nothing either.
C7_AbsentRemoveIsNoOp ==
    [][/\ (call'[1] = "remove_user" /\ call'[2] \notin DOMAIN users)
             => (users' = users /\ raised' = None /\ trace' = <<>>)
       /\ (call'[1] = "send_notification_email" /\ call'[2] \in Falsy)
             => (trace' = <<NotFoundMessage>> /\ raised' = None /\ users' = users)]_vars

\* C7 witness: remove_user ran on an id that is no key while the other user
\* is stored, and took the silent path.
C7_Witness ==
    /\ call[1] = "remove_user"
    /\ call[2] \notin DOMAIN users
    /\ trace = <<>>
    /\ DOMAIN users # {}
    /\ history[Len(history)].op = "remove_user"
    /\ LastAdded(SubSeq(history, 1, Len(history) - 1), call[2]) = None

(***************************************************************************)
(* Task 2: DiscountStrategy implementations and DiscountCalculator.        *)
(* Amounts are whole units; a discount is held in hundredths of a unit, so *)
(* amount * 0.05 is the integer amount * 5.                                *)
(***************************************************************************)
MaxAmount == 100

Amounts == 0..MaxAmount

\* the rates, in hundredths
RegularRate == 5
VIPRate == 15
PremiumRate == 10

StrategyClasses == {"RegularDiscount", "VIPDiscount", "PremiumDiscount"}

CustomerTypes == {"Regular", "VIP", "Premium", "Unknown", "Gold"}

\* what a strategy's calculate_discount returns and prints
RegularDiscount_calculate_discount(amount) ==
    LET discount == amount * RegularRate IN
    [ret |-> discount, print |-> <<"print", "Applying 5% regular discount", discount>>]

\* VIPDiscount with the premium rate typed in
VIPDiscount_wrong_rate(amount) ==
    LET discount == amount * PremiumRate IN
    [ret |-> discount, print |-> <<"print", "Applying 15% VIP discount", discount>>]

VIPDiscount_calculate_discount(amount) ==
    LET discount == amount * VIPRate IN
    [ret |-> discount, print |-> <<"print", "Applying 15% VIP discount", discount>>]

PremiumDiscount_calculate_discount(amount) ==
    LET discount == amount * PremiumRate IN
    [ret |-> discount, print |-> <<"print", "Applying 10% premium discount", discount>>]

\* strategy.calculate_discount(amount), dispatched on the strategy's class
Strategy_calculate_discount(cls, amount) ==
    CASE cls = "RegularDiscount" -> RegularDiscount_calculate_discount(amount)
      [] cls = "VIPDiscount" -> VIPDiscount_calculate_discount(amount)
      [] cls = "PremiumDiscount" -> PremiumDiscount_calculate_discount(amount)

\* DiscountCalculator.__init__
DiscountCalculator_init ==
    [k \in {"Regular", "VIP", "Premium"} |->
        CASE k = "Regular" -> "RegularDiscount"
          [] k = "VIP" -> "VIPDiscount"
          [] k = "Premium" -> "PremiumDiscount"]

\* the attributes a DiscountCalculator instance resolves
DiscountCalculatorMethods == {"__init__", "calculate_discount"}

InitDiscount ==
    /\ InitCommon
    /\ strategies = DiscountCalculator_init
    /\ Idle1 /\ Idle3 /\ Idle4 /\ Idle5

\* the dispatch written with a subscript: KeyError on an unregistered key
DiscountCalculator_calculate_discount_subscript(customer_type, amount) ==
    /\ call' = <<"calculate_discount", customer_type, amount>>
    /\ IF customer_type \in DOMAIN strategies
          THEN LET r == Strategy_calculate_discount(strategies[customer_type], amount) IN
               /\ trace' = << <<"call", strategies[customer_type], "calculate_discount", amount>>,
                              r.print >>
               /\ ret' = r.ret
               /\ raised' = None
          ELSE /\ trace' = <<>>
               /\ ret' = None
               /\ raised' = "KeyError"
    /\ UNCHANGED <<task1Vars, task2Vars, task3Vars, task4Vars, task5Vars>>

\* the dispatch as the if/elif chain that knows Regular and VIP only
DiscountCalculator_calculate_discount_chain(customer_type, amount) ==
    /\ call' = <<"calculate_discount", customer_type, amount>>
    /\ IF customer_type \in {"Regular", "VIP"}
          THEN LET r == Strategy_calculate_discount(strategies[customer_type], amount) IN
               /\ trace' = << <<"call", strategies[customer_type], "calculate_discount", amount>>,
                              r.print >>
               /\ ret' = r.ret
          ELSE /\ trace' = <<>>
               /\ ret' = 0
    /\ raised' = None
    /\ UNCHANGED <<task1Vars, task2Vars, task3Vars, task4Vars, task5Vars>>

DiscountCalculator_calculate_discount(customer_type, amount) ==
    LET strategy == DictGet(strategies, customer_type) IN
    /\ call' = <<"calculate_discount", customer_type, amount>>
    /\ IF strategy # None
          THEN LET r == Strategy_calculate_discount(strategy, amount) IN
               /\ trace' = << <<"call", strategy, "calculate_discount", amount>>, r.print >>
               /\ ret' = r.ret
          ELSE /\ trace' = <<>>
               /\ ret' = 0
    /\ raised' = None
    /\ UNCHANGED <<task1Vars, task2Vars, task3Vars, task4Vars, task5Vars>>

\* calculator.register(key, strategy): the class defines no such attribute, so
\* the attribute lookup raises and nothing is stored
register(key, strategy) ==
    /\ "register" \notin DiscountCalculatorMethods
    /\ call' = <<"register", key, strategy>>
    /\ trace' = <<>>
    /\ ret' = None
    /\ raised' = "AttributeError"
    /\ UNCHANGED <<task1Vars, task2Vars, task3Vars, task4Vars, task5Vars>>

NextDiscount ==
    \/ \E k \in CustomerTypes, a \in Amounts : DiscountCalculator_calculate_discount(k, a)
    \/ \E k \in CustomerTypes, s \in StrategyClasses : register(k, s)

SpecDiscount == InitDiscount /\ [][NextDiscount]_vars

\* C2: calculate_discount(key, amount) returns 5% of amount for "Regular",
\* 15% for "VIP" and 10% for "Premium" (in hundredths: 5, 15 and 10 times the
\* amount); for amount 100 that is 5, 15 and 10 units.
C2_Rates ==
    call[1] = "calculate_discount" =>
        /\ call[2] = "Regular" => (ret = 5 * call[3] /\ (call[3] = 100 => ret = 500))
        /\ call[2] = "VIP" => (ret = 15 * call[3] /\ (call[3] = 100 => ret = 1500))
        /\ call[2] = "Premium" => (ret = 10 * call[3] /\ (call[3] = 100 => ret = 1000))

\* C2 witness: calculate_discount("VIP", 100) returned 15 units.
C2_Witness == call = <<"calculate_discount", "VIP", 100>> /\ ret = 1500

\* C3: for a key that is not in the strategy mapping, calculate_discount
\* returns 0, invokes no strategy (and so prints nothing), raises nothing and
\* leaves the mapping as it was.
C3_UnknownKeyIsZero ==
    [][(call'[1] = "calculate_discount" /\ call'[2] \notin DOMAIN strategies)
          => (raised' = None /\ ret' = 0 /\ trace' = <<>> /\ strategies' = strategies)]_vars

\* C3 witness: calculate_discount("Unknown", 100) returned 0 without a
\* strategy call.
C3_Witness ==
    /\ call = <<"calculate_discount", "Unknown", 100>>
    /\ "Unknown" \notin DOMAIN strategies
    /\ ret = 0
    /\ trace = <<>>

\* C8 as stated: after register(key, strategy), compute(key, input) returns
\* what that strategy returns on input.
C8_Original_RegisterThenCompute ==
    [][(call[1] = "register" /\ call'[1] = "calculate_discount" /\ call'[2] = call[2])
          => ret' = Strategy_calculate_discount(call[3], call'[3]).ret]_vars

\* C8 amended: the calculator has no register operation: a register call
\* raises AttributeError and the mapping stays the one the constructor built
\* (Regular, VIP, Premium); calculate_discount(key, input) for a key of that
\* mapping invokes exactly the strategy stored under the key, once, on input,
\* and returns its result.
C8_FixedMappingDispatch ==
    /\ strategies = DiscountCalculator_init
    /\ call[1] = "register" => (raised = "AttributeError" /\ ret = None)
    /\ (call[1] = "calculate_discount" /\ call[2] \in DOMAIN strategies) =>
          /\ Len(trace) = 2
          /\ trace[1] = <<"call", strategies[call[2]], "calculate_discount", call[3]>>
          /\ ret = Strategy_calculate_discount(strategies[call[2]], call[3]).ret
          /\ raised = None

\* C8 witness: register("Gold", PremiumDiscount) was called and raised, and
\* "Gold" is still no key.
C8_Witness ==
    /\ call = <<"register", "Gold", "PremiumDiscount">>
    /\ raised = "AttributeError"
    /\ "Gold" \notin DOMAIN strategies

(***************************************************************************)
(* Task 3: Shape, Rectangle, Square and print_area                         *)
(***************************************************************************)
MaxDim == 5

Dims == 1..MaxDim

\* Rectangle.__init__
Rectangle(width, height) == [cls |-> "Rectangle", width |-> width, height |-> height]

\* Square.__init__
Square(size) == [cls |-> "Square", size |-> size]

InitShapes ==
    /\ InitCommon
    /\ shape \in {Rectangle(w, h) : w \in Dims, h \in Dims} \cup {Square(s) : s \in Dims}
    /\ Idle1 /\ Idle2 /\ Idle4 /\ Idle5

\* the width setter a Square that inherits Rectangle had: it sets the height too
Rectangle_width_setter_coupled(value) ==
    /\ shape.cls = "Rectangle"
    /\ call' = <<"width.setter", value>>
    /\ shape' = [shape EXCEPT !.width = value, !.height = value]
    /\ trace' = <<>>
    /\ ret' = None
    /\ raised' = None
    /\ UNCHANGED <<task1Vars, task2Vars, task4Vars, task5Vars>>

Rectangle_width_setter(value) ==
    /\ shape.cls = "Rectangle"
    /\ call' = <<"width.setter", value>>
    /\ shape' = [shape EXCEPT !.width = value]
    /\ trace' = <<>>
    /\ ret' = None
    /\ raised' = None
    /\ UNCHANGED <<task1Vars, task2Vars, task4Vars, task5Vars>>

Rectangle_height_setter(value) ==
    /\ shape.cls = "Rectangle"
    /\ call' = <<"height.setter", value>>
    /\ shape' = [shape EXCEPT !.height = value]
    /\ trace' = <<>>
    /\ ret' = None
    /\ raised' = None
    /\ UNCHANGED <<task1Vars, task2Vars, task4Vars, task5Vars>>

Square_size_setter(value) ==
    /\ shape.cls = "Square"
    /\ call' = <<"size.setter", value>>
    /\ shape' = [shape EXCEPT !.size = value]
    /\ trace' = <<>>
    /\ ret' = None
    /\ raised' = None
    /\ UNCHANGED <<task1Vars, task2Vars, task4Vars, task5Vars>>

\* the area of a rectangle taken as width squared
Rectangle_calculate_area_squared(s) == s.width * s.width

Rectangle_calculate_area(s) == s.width * s.height

Square_calculate_area(s) == s.size * s.size

\* shape.calculate_area(), dispatched on the shape's class
Shape_calculate_area(s) ==
    CASE s.cls = "Rectangle" -> Rectangle_calculate_area(s)
      [] s.cls = "Square" -> Square_calculate_area(s)

calculate_area ==
    /\ call' = <<"calculate_area">>
    /\ ret' = Shape_calculate_area(shape)
    /\ trace' = <<>>
    /\ raised' = None
    /\ UNCHANGED <<task1Vars, task2Vars, task3Vars, task4Vars, task5Vars>>

print_area ==
    /\ call' = <<"print_area">>
    /\ trace' = << <<"call", shape.cls, "calculate_area">>,
                   <<"print", "Area", Shape_calculate_area(shape)>> >>
    /\ ret' = None
    /\ raised' = None
    /\ UNCHANGED <<task1Vars, task2Vars, task3Vars, task4Vars, task5Vars>>

NextShapes ==
    \/ \E v \in Dims : Rectangle_width_setter(v)
    \/ \E v \in Dims : Rectangle_height_setter(v)
    \/ \E v \in Dims : Square_size_setter(v)
    \/ calculate_area
    \/ print_area

SpecShapes == InitShapes /\ [][NextShapes]_vars

\* C5: setting a Rectangle's width leaves its height as it was and setting
\* its height leaves its width as it was; setting a Square's size touches
\* size alone (a Square has no other dimension); calculate_area and
\* print_area change no dimension of either shape.
C5_SettersAreIndependent ==
    [][/\ call'[1] = "width.setter" =>
             (shape'.height = shape.height /\ shape'.width = call'[2])
       /\ call'[1] = "height.setter" =>
             (shape'.width = shape.width /\ shape'.height = call'[2])
       /\ call'[1] = "size.setter" =>
             (shape' = Square(call'[2]) /\ shape.cls = "Square")
       /\ call'[1] \in {"calculate_area", "print_area"} => shape' = shape]_vars

\* C5 witness: the width of a rectangle was set to 3 and its height is 1.
C5_Witness ==
    /\ call = <<"width.setter", 3>>
    /\ shape = Rectangle(3, 1)

\* C6: calculate_area returns the product of the shape's current dimensions:
\* width * height for a Rectangle, size * size for a Square, at construction
\* and after any sequence of setter calls; print_area prints that value.
C6_AreaIsProduct ==
    /\ call[1] = "calculate_area" =>
          /\ shape.cls = "Rectangle" => ret = shape.width * shape.height
          /\ shape.cls = "Square" => ret = shape.size * shape.size
    /\ call[1] = "print_area" =>
          /\ shape.cls = "Rectangle" => trace[2] = <<"print", "Area", shape.width * shape.height>>
          /\ shape.cls = "Square" => trace[2] = <<"print", "Area", shape.size * shape.size>>

\* C6 witness: calculate_area on a 3 by 2 rectangle returned 6.
C6_Witness ==
    /\ call = <<"calculate_area">>
    /\ shape = Rectangle(3, 2)
    /\ ret = 6

(***************************************************************************)
(* Task 5: IMessageSender, EmailSender, SMSSender and NotificationService  *)
(***************************************************************************)
SenderClasses == {"EmailSender", "SMSSender"}

NotifiedUsers == {"John", "Alice", "Bob"}

Contacts == {"j@x.com", "johndoe@gmail.com", "+1234567890", ""}

Texts == {"hi", "Your order has shipped!", "", "a", "b"}

\* what EmailSender.send prints
EmailSender_send(recipient, message) == <<"print", "Sending email to", recipient, message>>

\* what SMSSender.send prints
SMSSender_send(recipient, message) == <<"print", "Sending SMS to", recipient, message>>

\* sender.send(recipient, message), dispatched on the sender's class
Sender_send(cls, recipient, message) ==
    CASE cls = "EmailSender" -> EmailSender_send(recipient, message)
      [] cls = "SMSSender" -> SMSSender_send(recipient, message)

\* NotificationService.__init__(message_sender)
InitNotify ==
    /\ InitCommon
    /\ injected \in SenderClasses
    /\ sender = injected
    /\ Idle1 /\ Idle2 /\ Idle3 /\ Idle4

\* the service that makes its own EmailSender and derives the address
send_notification_hardwired(user, contact, message) ==
    /\ call' = <<"send_notification", user, contact, message>>
    /\ trace' = << <<"print", "Processing notification for", user>>,
                   <<"call", "EmailSender", "send", contact, message>>,
                   Sender_send("EmailSender", contact, message) >>
    /\ ret' = None
    /\ raised' = None
    /\ UNCHANGED <<task1Vars, task2Vars, task3Vars, task4Vars, task5Vars>>

send_notification(user, contact, message) ==
    /\ call' = <<"send_notification", user, contact, message>>
    /\ trace' = << <<"print", "Processing notification for", user>>,
                   <<"call", sender, "send", contact, message>>,
                   Sender_send(sender, contact, message) >>
    /\ ret' = None
    /\ raised' = None
    /\ UNCHANGED <<task1Vars, task2Vars, task3Vars, task4Vars, task5Vars>>

NextNotify ==
    \E u \in NotifiedUsers, c \in Contacts, m \in Texts : send_notification(u, c, m)

SpecNotify == InitNotify /\ [][NextNotify]_vars

\* the calls to a sender's send among the events of a trace
SendCalls(t) == {i \in 1..Len(t) : t[i][1] = "call"}

\* C4: a send_notification(user, contact, message) call first prints the
\* processing line for user, then calls send on the injected sender exactly
\* once, with exactly (contact, message), and on no other sender; the events
\* have the same shape for either sender class; the service's sender is the
\* one injected at construction, always.
C4_DelegatesVerbatim ==
    /\ sender = injected
    /\ call[1] = "send_notification" =>
          /\ trace[1] = <<"print", "Processing notification for", call[2]>>
          /\ trace[2] = <<"call", injected, "send", call[3], call[4]>>
          /\ SendCalls(trace) = {2}
          /\ Len(trace) = 3
          /\ trace[3][1] = "print"
          /\ trace[3][2] = (IF injected = "EmailSender" THEN "Sending email to"
                                                        ELSE "Sending SMS to")
          /\ trace[3][3] = call[3]
          /\ trace[3][4] = call[4]
          /\ raised = None

\* C4 witness: a service built with an SMSSender sent "hi" for John to
\* +1234567890 through SMSSender.send.
C4_Witness ==
    /\ injected = "SMSSender"
    /\ call = <<"send_notification", "John", "+1234567890", "hi">>
    /\ trace[2] = <<"call", "SMSSender", "send", "+1234567890", "hi">>

(***************************************************************************)
(* Task 4: IWorkable, IEatable, ISleepable, HumanWorker, RobotWorker and   *)
(* the driver.  The driver's list and the worker its capability checks     *)
(* test are inputs: the source runs it with [human, robot] and human.      *)
(***************************************************************************)
MaxWorkforce == 3

MaxDirect == 1

WorkerClasses == {"HumanWorker", "RobotWorker"}

Interfaces == {"IWorkable", "IEatable", "ISleepable"}

Capabilities == {"work", "eat", "sleep"}

\* the one abstract method each interface declares
InterfaceMethod(iface) ==
    CASE iface = "IWorkable" -> "work"
      [] iface = "IEatable" -> "eat"
      [] iface = "ISleepable" -> "sleep"

\* the base classes in each class statement
Bases(cls) ==
    CASE cls = "HumanWorker" -> {"IWorkable", "IEatable", "ISleepable"}
      [] cls = "RobotWorker" -> {"IWorkable"}

\* the fat-interface RobotWorker, with stub eat and sleep
OwnMethods_fat(cls) ==
    CASE cls = "HumanWorker" -> {"work", "eat", "sleep"}
      [] cls = "RobotWorker" -> {"work", "eat", "sleep"}

\* the methods each class body defines
OwnMethods(cls) ==
    CASE cls = "HumanWorker" -> {"work", "eat", "sleep"}
      [] cls = "RobotWorker" -> {"work"}

\* a capability test that answers yes for every worker
isinstance_any(cls, iface) == TRUE

\* isinstance(worker, iface) for a worker of class cls
isinstance(cls, iface) == iface \in Bases(cls)

\* the outcome of worker.method() for a worker of class cls: attribute lookup
\* finds method only among the names the class defines (a concrete worker
\* defines every method its interfaces declare, or it could not be built)
Invoke(cls, method) ==
    IF method \in OwnMethods(cls) THEN "ran" ELSE "AttributeError"

\* what a worker's method prints
WorkerPrint(cls, method) == <<"print", cls, method>>

WorkforceLists ==
    UNION {[1..n -> WorkerClasses] : n \in 1..MaxWorkforce}

InitWorkers ==
    /\ InitCommon
    /\ workforce \in WorkforceLists
    /\ subject \in 1..Len(workforce)
    /\ pc = "loop"
    /\ idx = 1
    /\ invocations = <<>>
    /\ Idle1 /\ Idle2 /\ Idle3 /\ Idle5

\* worker.method() on workforce[w], recorded; checked tells whether an
\* isinstance test guarded it
Invocation(w, method, checked) ==
    LET cls == workforce[w]
        outcome == Invoke(cls, method) IN
    /\ call' = <<method, w>>
    /\ invocations' = Append(invocations,
           [worker |-> w, cls |-> cls, method |-> method,
            outcome |-> outcome, checked |-> checked])
    /\ trace' = IF outcome = "ran" THEN << WorkerPrint(cls, method) >> ELSE <<>>
    /\ raised' = IF outcome = "ran" THEN None ELSE outcome
    /\ ret' = None

\* for worker in workforce: worker.work()
main_loop_work ==
    /\ pc = "loop"
    /\ idx <= Len(workforce)
    /\ Invocation(idx, "work", FALSE)
    /\ idx' = idx + 1
    /\ pc' = IF idx = Len(workforce) THEN "check_eat" ELSE "loop"
    /\ UNCHANGED <<workforce, subject, task1Vars, task2Vars, task3Vars, task5Vars>>

\* if isinstance(w, iface): w.method()
CheckedInvoke(iface, next) ==
    /\ IF isinstance(workforce[subject], iface)
          THEN Invocation(subject, InterfaceMethod(iface), TRUE)
          ELSE /\ call' = <<"isinstance", subject, iface>>
               /\ trace' = <<>>
               /\ raised' = None
               /\ ret' = None
               /\ invocations' = invocations
    /\ pc' = next
    /\ UNCHANGED <<workforce, subject, idx, task1Vars, task2Vars, task3Vars, task5Vars>>

main_check_eat == pc = "check_eat" /\ CheckedInvoke("IEatable", "check_sleep")

main_check_sleep == pc = "check_sleep" /\ CheckedInvoke("ISleepable", "done")

\* a caller that invokes a method on a worker without testing for it
direct_invoke(w, method) ==
    /\ pc = "done"
    /\ Len(invocations) < Len(workforce) + 2 + MaxDirect
    /\ Invocation(w, method, FALSE)
    /\ UNCHANGED <<workforce, subject, idx, pc, task1Vars, task2Vars, task3Vars, task5Vars>>

NextWorkers ==
    \/ main_loop_work
    \/ main_check_eat
    \/ main_check_sleep

SpecWorkers == InitWorkers /\ [][NextWorkers]_vars

NextWorkersDirect ==
    \/ main_loop_work
    \/ main_check_eat
    \/ main_check_sleep
    \/ \E w \in 1..Len(workforce), m \in Capabilities : direct_invoke(w, m)

SpecWorkersDirect == InitWorkers /\ [][NextWorkersDirect]_vars

\* the invocations made so far, as a set of indices
Made == 1..Len(invocations)

\* C9: a HumanWorker is an IWorkable, an IEatable and an ISleepable and
\* has exactly work, eat and sleep; a RobotWorker is an IWorkable only and has
\* work only; a caller that tests the capability first never invokes eat or
\* sleep on a RobotWorker, none of its invocations fails, work is invoked once
\* on every worker of the workforce, and on a worker that has the capability
\* the tested eat and sleep do run.
C9_CheckedCallerRespectsCapabilities ==
    /\ \A i \in Interfaces : isinstance("HumanWorker", i)
    /\ {i \in Interfaces : isinstance("RobotWorker", i)} = {"IWorkable"}
    /\ {m \in Capabilities : Invoke("HumanWorker", m) = "ran"} = {"work", "eat", "sleep"}
    /\ {m \in Capabilities : Invoke("RobotWorker", m) = "ran"} = {"work"}
    /\ \A k \in Made :
          /\ invocations[k].method \in {"eat", "sleep"} => invocations[k].cls # "RobotWorker"
          /\ invocations[k].outcome = "ran"
    /\ pc # "loop" =>
          \A w \in 1..Len(workforce) :
              Cardinality({k \in Made : invocations[k].worker = w
                                        /\ invocations[k].method = "work"}) = 1
    /\ (pc = "done" /\ workforce[subject] = "HumanWorker") =>
          /\ \E k \in Made : invocations[k].worker = subject /\ invocations[k].method = "eat"
          /\ \E k \in Made : invocations[k].worker = subject /\ invocations[k].method = "sleep"

\* C9 witness: the driver ran to its end on [human, robot] with the checks on
\* the human: work, work, eat, sleep.
C9_Witness ==
    /\ pc = "done"
    /\ workforce = <<"HumanWorker", "RobotWorker">>
    /\ subject = 1
    /\ Len(invocations) = 4
    /\ invocations[2].cls = "RobotWorker" /\ invocations[2].method = "work"
    /\ invocations[3].method = "eat" /\ invocations[3].checked
    /\ invocations[4].method = "sleep" /\ invocations[4].checked

\* C9 second case: the checks ran on a robot and invoked nothing.
C9_RobotSkipped ==
    /\ pc = "done"
    /\ workforce[subject] = "RobotWorker"
    /\ Len(invocations) = Len(workforce)

\* C10 as stated: invoking a capability the implementer does not declare
\* never occurs as a runtime failure.
C10_Original_NoRuntimeFailure ==
    /\ raised = None
    /\ \A k \in Made : invocations[k].outcome # "AttributeError"

\* C10 amended: nothing rejects eat or sleep on a RobotWorker before run
\* time: the call is made and fails at run time with AttributeError, running
\* no method body; an invocation fails exactly when it is eat or sleep on a
\* RobotWorker, and only an invocation that no isinstance test guards fails.
C10_UndeclaredCapabilityFailsAtRuntime ==
    /\ \A k \in Made :
          /\ invocations[k].outcome = "AttributeError"
                <=> (invocations[k].cls = "RobotWorker"
                     /\ invocations[k].method \in {"eat", "sleep"})
          /\ invocations[k].outcome = "AttributeError" => ~invocations[k].checked
    /\ raised \in {None, "AttributeError"}
    /\ raised = "AttributeError" =>
          /\ call[1] \in {"eat", "sleep"}
          /\ workforce[call[2]] = "RobotWorker"
          /\ trace = <<>>

\* C10 witness: eat was invoked on a RobotWorker without a test and raised
\* AttributeError.
C10_Witness ==
    /\ raised = "AttributeError"
    /\ call[1] = "eat"
    /\ workforce[call[2]] = "RobotWorker"
    /\ invocations[Len(invocations)].outcome = "AttributeError"
    /\ ~invocations[Len(invocations)].checked

====
